---- MODULE Spec2Model ----
(***************************************************************************)
(* State-machine model of the FastAPI chat messaging API (src/main.py).    *)
(*                                                                         *)
(* The store (PostgreSQL) holds the tables users, rooms and messages and   *)
(* their id sequences.  Every request handler is a coroutine: each `await` *)
(* on the database is one atomic step of the store, and other requests may *)
(* run between two steps of the same request.  Time is counted in ticks of *)
(* 1/TicksPerSecond second; datetime.utcnow() reads `clock`.               *)
(*                                                                         *)
(* History variables (read by no handler): issued, registered, plain,      *)
(* postedBy, and the field authAt of a request record.                      *)
(***************************************************************************)
EXTENDS Integers, Sequences, FiniteSets, Bags, TLC

VARIABLES users, rooms, messages, userSeq, roomSeq, msgSeq, clock,
          inflight, resp, issued, registered, plain, postedBy

vars == <<users, rooms, messages, userSeq, roomSeq, msgSeq, clock,
          inflight, resp, issued, registered, plain, postedBy>>

tables == <<users, rooms, messages>>

(***************************************************************************)
(* Bounds of the model.                                                    *)
(***************************************************************************)
MaxClock == 1
MaxInflight == 2
MaxMsgs == 2
TicksPerSecond == 2

(***************************************************************************)
(* Program constants.                                                      *)
(***************************************************************************)
SECRET_KEY == "boicandance"
ACCESS_TOKEN_EXPIRE_MINUTES == 30

TTLSeconds == ACCESS_TOKEN_EXPIRE_MINUTES * 60
TTLTicks == TTLSeconds * TicksPerSecond

(***************************************************************************)
(* Inputs.  A password is split at bcrypt's input limit: head is its first *)
(* 72 bytes, tail what follows them (empty for a short password).          *)
(***************************************************************************)
Usernames == {"alice", "bob"}
RoomNames == {"general", "random"}
Contents == {"hi"}
Salts == {"s1", "s2"}
OneSalt == {"s1"}
Pw(h, t) == [head |-> h, tail |-> t]
Passwords == {Pw("pw1", ""), Pw("long72", ""), Pw("long72", "x")}
NoPassword == Pw("", "")
RoomIdInputs == {1, 2}

(***************************************************************************)
(* Password hashing: pwd_context = CryptContext(schemes=["bcrypt"]).       *)
(* bcrypt digests the salt and the first 72 bytes of the password.         *)
(***************************************************************************)
Bcrypt(salt, password) == <<salt, password.head>>

get_password_hash(password, salt) ==
    [salt |-> salt, digest |-> Bcrypt(salt, password)]

MutVerifyAlways(plain_password, hashed_password) == TRUE

verify_password(plain_password, hashed_password) ==
    Bcrypt(hashed_password.salt, plain_password) = hashed_password.digest

NoHash == [salt |-> "", digest |-> <<>>]
NoUser == [id |-> 0, username |-> "", hashed_password |-> NoHash]

MutLookupMisses(username) == NoUser

get_user_by_username(username) ==
    IF \E u \in users : u.username = username
    THEN CHOOSE u \in users : u.username = username
    ELSE NoUser

authenticate_user(username, password) ==
    LET user == get_user_by_username(username) IN
    IF user = NoUser THEN NoUser
    ELSE IF ~verify_password(password, user.hashed_password) THEN NoUser
    ELSE user

(***************************************************************************)
(* Tokens: jose's HS256 JWT.  A token carries its payload (sub, exp) and a *)
(* MAC over the payload under SECRET_KEY.  exp is a whole number of        *)
(* seconds: jwt.encode converts the datetime with timegm(utctimetuple()).  *)
(***************************************************************************)
Seconds(t) == t \div TicksPerSecond

Sign(sub, exp) == <<SECRET_KEY, sub, exp>>

NoToken == [form |-> "none", sub |-> "", exp |-> 0, mac |-> <<>>]
Malformed == [form |-> "garbage", sub |-> "", exp |-> 0, mac |-> <<>>]

create_access_token(sub, now) ==
    LET expire == now + TTLTicks IN
    [form |-> "jwt", sub |-> sub, exp |-> Seconds(expire),
     mac |-> Sign(sub, Seconds(expire))]

\* A client that alters the payload of a token it holds keeps the old MAC.
Tamper(tok) == [tok EXCEPT !.exp = tok.exp + TTLSeconds]

SignatureOk(tok) == tok.form = "jwt" /\ tok.mac = Sign(tok.sub, tok.exp)

MutNeverExpires(tok, now) == FALSE

\* jose _validate_exp: `if exp < (now - leeway): raise ExpiredSignatureError`
Expired(tok, now) == tok.exp < Seconds(now)

NotAuthenticated == "Not authenticated"
CredentialsError == "Could not validate credentials"

MutAnonymousFallback(tok, now) ==
    [user |-> IF users = {} THEN NoUser ELSE CHOOSE u \in users : TRUE,
     detail |-> ""]

\* Depends(oauth2_scheme) followed by the body of get_current_user.
get_current_user(tok, now) ==
    IF tok.form = "none" THEN [user |-> NoUser, detail |-> NotAuthenticated]
    ELSE IF ~SignatureOk(tok) \/ Expired(tok, now)
    THEN [user |-> NoUser, detail |-> CredentialsError]
    ELSE LET user == get_user_by_username(tok.sub) IN
         IF user = NoUser THEN [user |-> NoUser, detail |-> CredentialsError]
         ELSE [user |-> user, detail |-> ""]

(***************************************************************************)
(* Requests and responses.                                                 *)
(***************************************************************************)
Req(kind, pc, token, username, password, name, room_id, content) ==
    [kind |-> kind, pc |-> pc, token |-> token, user |-> NoUser,
     authAt |-> 0, username |-> username, password |-> password,
     name |-> name, room_id |-> room_id, content |-> content,
     ts |-> 0, msg_id |-> 0]

Idle == Req("idle", "idle", NoToken, "", NoPassword, "", 0, "")

Protected == {"create_room", "list_rooms", "post_message", "list_messages"}

\* resp is the response sent by the step just taken, NoResponse if it sent none.
Response(req, status, detail, body) ==
    [req |-> req, status |-> status, detail |-> detail, body |-> body]

NoResponse == Response(Idle, 0, "", <<>>)

\* The requests in flight are a bag: two equal requests may run at once.
InFlight == BagToSet(inflight)
Arrives == BagCardinality(inflight) < MaxInflight
Start(req) == inflight' = inflight (+) SetToBag({req})
Finish(req) == inflight' = inflight (-) SetToBag({req})
Move(req, next) == inflight' = (inflight (-) SetToBag({req})) (+) SetToBag({next})

\* What a client can put in the Authorization header: a token it was given,
\* a token it altered, something that is no token, or nothing.
Held == {i.tok : i \in issued}
Presentable == {NoToken, Malformed} \cup Held \cup {Tamper(tok) : tok \in Held}

\* History: each token handed out, with the time it was first issued.
Issue(tok) ==
    IF \E i \in issued : i.tok = tok THEN issued
    ELSE issued \cup {[tok |-> tok, at |-> clock]}

(***************************************************************************)
(* The store: unique constraints of the schema, and inserts.               *)
(***************************************************************************)
MutNoUniqueConstraint(names, name) == FALSE

\* Column(..., unique=True): the insert raises instead of adding the row.
UniqueViolation(names, name) == name \in names

Init ==
    /\ users = {} /\ rooms = {} /\ messages = {}
    /\ userSeq = 0 /\ roomSeq = 0 /\ msgSeq = 0
    /\ clock = 0
    /\ inflight = EmptyBag
    /\ resp = NoResponse
    /\ issued = {} /\ registered = {} /\ plain = {} /\ postedBy = {}

(***************************************************************************)
(* POST /register                                                          *)
(***************************************************************************)
\* lines 140-142: the existence check
register(username, password) ==
    /\ Arrives
    /\ LET req == Req("register", "check", NoToken, username, password, "", 0, "") IN
       IF get_user_by_username(username) # NoUser
       THEN /\ resp' = Response(req, 400, "Username already registered", <<>>)
            /\ UNCHANGED inflight
       ELSE /\ Start([req EXCEPT !.pc = "insert"])
            /\ resp' = NoResponse
    /\ UNCHANGED <<tables, userSeq, roomSeq, msgSeq, clock, issued, registered,
                   plain, postedBy>>

\* lines 143-145: hash the password and insert the row
register_insert(req, S) ==
    /\ req \in InFlight /\ req.kind = "register" /\ req.pc = "insert"
    /\ userSeq' = userSeq + 1
    /\ IF UniqueViolation({u.username : u \in users}, req.username)
       THEN /\ resp' = Response(req, 500, "Internal Server Error", <<>>)
            /\ Finish(req)
            /\ UNCHANGED <<users, plain>>
       ELSE /\ \E salt \in S :
                 users' = users \cup
                     {[id |-> userSeq + 1, username |-> req.username,
                       hashed_password |-> get_password_hash(req.password, salt)]}
            /\ plain' = plain \cup {[username |-> req.username,
                                      password |-> req.password]}
            /\ Move(req, [req EXCEPT !.pc = "token"])
            /\ resp' = NoResponse
    /\ UNCHANGED <<rooms, messages, roomSeq, msgSeq, clock, issued, registered,
                   postedBy>>

\* lines 146-147: issue the token and answer
register_respond(req) ==
    /\ req \in InFlight /\ req.kind = "register" /\ req.pc = "token"
    /\ LET tok == create_access_token(req.username, clock) IN
       /\ resp' = Response(req, 200, "",
                           [access_token |-> tok, token_type |-> "bearer"])
       /\ issued' = Issue(tok)
       /\ registered' = registered \cup {req.username}
    /\ Finish(req)
    /\ UNCHANGED <<tables, userSeq, roomSeq, msgSeq, clock, plain, postedBy>>

(***************************************************************************)
(* POST /token                                                             *)
(***************************************************************************)
login(username, password) ==
    /\ LET req == Req("login", "done", NoToken, username, password, "", 0, "")
           user == authenticate_user(username, password) IN
       IF user = NoUser
       THEN /\ resp' = Response(req, 400, "Incorrect username or password", <<>>)
            /\ UNCHANGED issued
       ELSE LET tok == create_access_token(user.username, clock) IN
            /\ resp' = Response(req, 200, "",
                                [access_token |-> tok, token_type |-> "bearer"])
            /\ issued' = Issue(tok)
    /\ UNCHANGED <<tables, userSeq, roomSeq, msgSeq, clock, inflight, registered,
                   plain, postedBy>>

(***************************************************************************)
(* Protected endpoints: FastAPI resolves Depends(get_current_user) before  *)
(* the handler body runs; a rejected request never reaches the body.       *)
(***************************************************************************)
Authenticate(req0) ==
    /\ Arrives
    /\ LET auth == get_current_user(req0.token, clock)
           req == [req0 EXCEPT !.user = auth.user, !.authAt = clock] IN
       IF auth.user = NoUser
       THEN /\ resp' = Response(req, 401, auth.detail, <<>>)
            /\ UNCHANGED inflight
       ELSE /\ Start(req)
            /\ resp' = NoResponse
    /\ UNCHANGED <<tables, userSeq, roomSeq, msgSeq, clock, issued, registered,
                   plain, postedBy>>

(***************************************************************************)
(* POST /rooms                                                             *)
(***************************************************************************)
create_room(tok, name) ==
    Authenticate(Req("create_room", "check", tok, "", NoPassword, name, 0, ""))

\* lines 161-163: the existence check
create_room_check(req) ==
    /\ req \in InFlight /\ req.kind = "create_room" /\ req.pc = "check"
    /\ IF \E r \in rooms : r.name = req.name
       THEN /\ resp' = Response(req, 400, "Room already exists", <<>>)
            /\ Finish(req)
       ELSE /\ Move(req, [req EXCEPT !.pc = "insert"])
            /\ resp' = NoResponse
    /\ UNCHANGED <<tables, userSeq, roomSeq, msgSeq, clock, issued, registered,
                   plain, postedBy>>

\* lines 164-166: the insert and the answer built from the returned id
create_room_insert(req) ==
    /\ req \in InFlight /\ req.kind = "create_room" /\ req.pc = "insert"
    /\ roomSeq' = roomSeq + 1
    /\ IF UniqueViolation({r.name : r \in rooms}, req.name)
       THEN /\ resp' = Response(req, 500, "Internal Server Error", <<>>)
            /\ UNCHANGED rooms
       ELSE /\ rooms' = rooms \cup {[id |-> roomSeq + 1, name |-> req.name]}
            /\ resp' = Response(req, 200, "",
                                [id |-> roomSeq + 1, name |-> req.name])
    /\ Finish(req)
    /\ UNCHANGED <<users, messages, userSeq, msgSeq, clock, issued, registered,
                   plain, postedBy>>

(***************************************************************************)
(* GET /rooms                                                              *)
(***************************************************************************)
list_rooms(tok) ==
    Authenticate(Req("list_rooms", "fetch", tok, "", NoPassword, "", 0, ""))

list_rooms_fetch(req) ==
    /\ req \in InFlight /\ req.kind = "list_rooms" /\ req.pc = "fetch"
    /\ resp' = Response(req, 200, "", rooms)
    /\ Finish(req)
    /\ UNCHANGED <<tables, userSeq, roomSeq, msgSeq, clock, issued, registered,
                   plain, postedBy>>

(***************************************************************************)
(* POST /rooms/{room_id}/messages                                          *)
(***************************************************************************)
\* Post requests in flight that have not inserted their message yet.
Posting ==
    LET P == {r \in InFlight : r.kind = "post_message" /\ r.pc # "respond"} IN
    BagCardinality([r \in P |-> CopiesIn(r, inflight)])

post_message(tok, room_id, content) ==
    /\ Cardinality(messages) + Posting < MaxMsgs
    /\ Authenticate(Req("post_message", "check", tok, "", NoPassword, "",
                           room_id, content))

MutRoomAlwaysFound(room_id) == TRUE

RoomExists(room_id) == \E r \in rooms : r.id = room_id

\* lines 177-185: the existence check, then the insert's values are built
\* (timestamp=datetime.utcnow() is read here, before the insert is awaited)
post_message_check(req) ==
    /\ req \in InFlight /\ req.kind = "post_message" /\ req.pc = "check"
    /\ IF ~RoomExists(req.room_id)
       THEN /\ resp' = Response(req, 404, "Room not found", <<>>)
            /\ Finish(req)
       ELSE /\ Move(req, [req EXCEPT !.pc = "insert", !.ts = clock])
            /\ resp' = NoResponse
    /\ UNCHANGED <<tables, userSeq, roomSeq, msgSeq, clock, issued, registered,
                   plain, postedBy>>

MutUserIdFromPath(req, id) ==
    [id |-> id, room_id |-> req.room_id, user_id |-> req.room_id,
     content |-> req.content, timestamp |-> req.ts]

\* lines 180-185: the inserted values
MessageRow(req, id) ==
    [id |-> id, room_id |-> req.room_id, user_id |-> req.user.id,
     content |-> req.content, timestamp |-> req.ts]

\* ForeignKey("rooms.id"), ForeignKey("users.id")
ForeignKeyViolation(row) ==
    \/ ~\E r \in rooms : r.id = row.room_id
    \/ ~\E u \in users : u.id = row.user_id

\* line 186: the insert
post_message_insert(req) ==
    /\ req \in InFlight /\ req.kind = "post_message" /\ req.pc = "insert"
    /\ msgSeq' = msgSeq + 1
    /\ LET row == MessageRow(req, msgSeq + 1) IN
       IF ForeignKeyViolation(row)
       THEN /\ resp' = Response(req, 500, "Internal Server Error", <<>>)
            /\ Finish(req)
            /\ UNCHANGED <<messages, postedBy>>
       ELSE /\ messages' = messages \cup {row}
            /\ postedBy' = postedBy \cup {[id |-> row.id, sub |-> req.token.sub]}
            /\ Move(req, [req EXCEPT !.pc = "respond", !.msg_id = row.id])
            /\ resp' = NoResponse
    /\ UNCHANGED <<users, rooms, userSeq, roomSeq, clock, issued, registered,
                   plain>>

\* lines 187-193: the answer, with a second datetime.utcnow()
post_message_respond(req) ==
    /\ req \in InFlight /\ req.kind = "post_message" /\ req.pc = "respond"
    /\ resp' = Response(req, 200, "",
                        [id |-> req.msg_id, room_id |-> req.room_id,
                         user_id |-> req.user.id, content |-> req.content,
                         timestamp |-> clock])
    /\ Finish(req)
    /\ UNCHANGED <<tables, userSeq, roomSeq, msgSeq, clock, issued, registered,
                   plain, postedBy>>

(***************************************************************************)
(* GET /rooms/{room_id}/messages                                           *)
(***************************************************************************)
list_messages(tok, room_id) ==
    Authenticate(Req("list_messages", "check", tok, "", NoPassword, "",
                        room_id, ""))

\* lines 199-201
list_messages_check(req) ==
    /\ req \in InFlight /\ req.kind = "list_messages" /\ req.pc = "check"
    /\ IF ~RoomExists(req.room_id)
       THEN /\ resp' = Response(req, 404, "Room not found", <<>>)
            /\ Finish(req)
       ELSE /\ Move(req, [req EXCEPT !.pc = "fetch"])
            /\ resp' = NoResponse
    /\ UNCHANGED <<tables, userSeq, roomSeq, msgSeq, clock, issued, registered,
                   plain, postedBy>>

\* ORDER BY timestamp: every listing of the rows in which timestamps never
\* decrease; the store leaves the order of rows with equal timestamps open.
OrderByTimestamp(rows) ==
    {q \in [1..Cardinality(rows) -> rows] :
        /\ \A i, j \in DOMAIN q : i # j => q[i] # q[j]
        /\ \A i, j \in DOMAIN q : i < j => q[i].timestamp <= q[j].timestamp}

\* lines 202-203
list_messages_fetch(req) ==
    /\ req \in InFlight /\ req.kind = "list_messages" /\ req.pc = "fetch"
    /\ \E result \in OrderByTimestamp({m \in messages : m.room_id = req.room_id}) :
           resp' = Response(req, 200, "", result)
    /\ Finish(req)
    /\ UNCHANGED <<tables, userSeq, roomSeq, msgSeq, clock, issued, registered,
                   plain, postedBy>>

(***************************************************************************)
(* Time.                                                                   *)
(***************************************************************************)
Tick ==
    /\ clock < MaxClock
    /\ clock' = clock + 1
    /\ resp' = NoResponse
    /\ UNCHANGED <<tables, userSeq, roomSeq, msgSeq, inflight, issued,
                   registered, plain, postedBy>>

\* A wait of one token lifetime, plus up to a second.
Expire ==
    /\ clock <= MaxClock
    /\ \E d \in 0..TicksPerSecond : clock' = clock + TTLTicks + d
    /\ resp' = NoResponse
    /\ UNCHANGED <<tables, userSeq, roomSeq, msgSeq, inflight, issued,
                   registered, plain, postedBy>>

(***************************************************************************)
(* Specifications.  Each endpoint is the disjunction of its steps.         *)
(***************************************************************************)
Register(U, P, S) ==
    \/ \E u \in U, p \in P : register(u, p)
    \/ \E req \in InFlight : register_insert(req, S)
    \/ \E req \in InFlight : register_respond(req)

Login(U, P) == \E u \in U, p \in P : login(u, p)

CreateRoom(N, T) ==
    \/ \E tok \in T, n \in N : create_room(tok, n)
    \/ \E req \in InFlight : create_room_check(req)
    \/ \E req \in InFlight : create_room_insert(req)

ListRooms(T) ==
    \/ \E tok \in T : list_rooms(tok)
    \/ \E req \in InFlight : list_rooms_fetch(req)

\* A post request up to its existence check.
PostMessageCheck(T) ==
    \/ \E tok \in T, id \in RoomIdInputs, c \in Contents : post_message(tok, id, c)
    \/ \E req \in InFlight : post_message_check(req)

PostMessage(T) ==
    \/ PostMessageCheck(T)
    \/ \E req \in InFlight : post_message_insert(req)
    \/ \E req \in InFlight : post_message_respond(req)

ListMessages(T) ==
    \/ \E tok \in T, id \in RoomIdInputs : list_messages(tok, id)
    \/ \E req \in InFlight : list_messages_check(req)
    \/ \E req \in InFlight : list_messages_fetch(req)

OnePassword == {Pw("pw1", "")}
Alice == {"alice"}
General == {"general"}

\* The whole API for one account and one room name; no time passes.
Next ==
    \/ Register(Alice, OnePassword, OneSalt)
    \/ Login(Alice, OnePassword)
    \/ CreateRoom(General, Presentable)
    \/ ListRooms(Presentable)
    \/ PostMessage(Presentable)
    \/ ListMessages(Presentable)

Spec == Init /\ [][Next]_vars

\* Concurrent registrations and room creations.
NextRace ==
    \/ Register(Usernames, OnePassword, OneSalt)
    \/ CreateRoom(RoomNames, Held)

SpecRace == Init /\ [][NextRace]_vars

\* Accounts only: registration and login with every password.
NextLogin ==
    \/ Register(Usernames, Passwords, Salts)
    \/ Login(Usernames, Passwords)

SpecLogin == Init /\ [][NextLogin]_vars

\* Two accounts posting to a room with the tokens they were given.
NextAuthor ==
    \/ Register(Usernames, OnePassword, OneSalt)
    \/ CreateRoom(General, Held)
    \/ PostMessage(Held)

SpecAuthor == Init /\ [][NextAuthor]_vars

\* Tokens over time: one account, no room is ever created.
NextTTL ==
    \/ Register(Alice, OnePassword, OneSalt)
    \/ Login(Alice, OnePassword)
    \/ ListRooms(Presentable)
    \/ PostMessageCheck(Presentable)
    \/ Tick
    \/ Expire

SpecTTL == Init /\ [][NextTTL]_vars

\* Messages over time: one account, one room, posts and listings.
NextMsg ==
    \/ Register(Alice, OnePassword, OneSalt)
    \/ CreateRoom(General, Held)
    \/ PostMessage(Held)
    \/ ListMessages(Held)
    \/ Tick

SpecMsg == Init /\ [][NextMsg]_vars

(***************************************************************************)
(* Properties.  They are stated over the tables, the history variables and *)
(* the response of the step just taken, not over the handlers' helpers.    *)
(***************************************************************************)
Sent == resp.status # 0
Extant(room_id) == \E r \in rooms : r.id = room_id
seqs == <<userSeq, roomSeq, msgSeq>>

\* C1: in every reachable state no two user rows have the same username and
\* no two room rows have the same name, whatever the interleaving of the
\* existence checks and inserts of concurrent register / create-room requests.
C1_UniqueNames ==
    /\ \A u, v \in users : u.username = v.username => u = v
    /\ \A r, q \in rooms : r.name = q.name => r = q

\* An insert was refused on each table: both requests of a race had passed
\* their existence check, and one row is there.
C1_Witness ==
    /\ users # {} /\ userSeq > Cardinality(users)
    /\ rooms # {} /\ roomSeq > Cardinality(rooms)

\* C2: once a register request for u has succeeded, a register request for u
\* that arrives later is answered 400, is over with that answer (no token is
\* issued) and leaves the users table as it was.
C2_RegisterAgainConflict ==
    [][\A u \in Usernames, p \in Passwords :
          (u \in registered /\ register(u, p)) =>
              /\ resp'.status = 400
              /\ resp'.detail = "Username already registered"
              /\ resp'.body = <<>>
              /\ UNCHANGED <<users, userSeq, issued, inflight>>]_vars

C2_Witness ==
    /\ resp.status = 400 /\ resp.req.kind = "register"
    /\ resp.req.username \in registered
    /\ Cardinality(users) = Cardinality(Usernames)

\* C3: on each protected endpoint a request with no token or with a
\* malformed token is answered 401 by a step that changes no table (nor any
\* sequence, nor the requests in flight), and is never let through to the
\* handler.
C3_NoTokenNoEffect ==
    [][/\ (/\ resp'.status # 0
           /\ resp'.req.kind \in Protected
           /\ resp'.req.token \in {NoToken, Malformed})
              => /\ resp'.status = 401
                 /\ UNCHANGED <<tables, seqs, inflight>>
       /\ \A r \in BagToSet(inflight') :
              r.kind \in Protected => r.token \notin {NoToken, Malformed}]_vars

C3_Witness ==
    /\ resp.status = 401 /\ resp.req.kind = "post_message"
    /\ resp.req.token = Malformed
    /\ Extant(resp.req.room_id) /\ messages # {}

\* A token is good at time t when it was handed out and t is not past the
\* second of its expiry.
Good(tok, t) == tok \in {i.tok : i \in issued} /\ Seconds(t) <= tok.exp

\* C4 as claimed: a post to a room id that references no room is answered
\* 404 whatever the token.
C4_AlwaysNotFound ==
    (Sent /\ resp.req.kind = "post_message" /\ ~Extant(resp.req.room_id))
        => resp.status = 404

\* C4 as amended: a post to a room id that references no room is answered
\* 404 when its token is good, and 401 when the token is missing, malformed,
\* tampered or expired; it never gets past the existence check.
C4_NotFoundIfAuthenticated ==
    /\ (Sent /\ resp.req.kind = "post_message" /\ ~Extant(resp.req.room_id))
           => resp.status = IF Good(resp.req.token, resp.req.authAt)
                            THEN 404 ELSE 401
    /\ \A r \in InFlight :
           (r.kind = "post_message" /\ r.pc # "check") => Extant(r.room_id)

\* An expired token on a post to a missing room.
C4_Witness ==
    /\ resp.status = 401 /\ resp.req.kind = "post_message"
    /\ ~Extant(resp.req.room_id)
    /\ resp.req.token \in {i.tok : i \in issued}

\* C5: a listing of a room's messages is in non-decreasing timestamp order,
\* and that order is the order in which the messages were inserted (ids are
\* drawn from the sequence at the insert).
C5_ListedInInsertionOrder ==
    (resp.status = 200 /\ resp.req.kind = "list_messages") =>
        \A i, j \in DOMAIN resp.body :
            i < j => /\ resp.body[i].timestamp <= resp.body[j].timestamp
                     /\ resp.body[i].id < resp.body[j].id

\* The requests whose authentication has been decided: those in flight were
\* accepted, the one just answered was rejected if the answer is 401.
Accepted(x) == x \in InFlight \/ (Sent /\ x = resp.req /\ resp.status # 401)
Rejected(x) ==
    Sent /\ x = resp.req /\ resp.status = 401 /\ resp.detail = CredentialsError
Decided ==
    {x \in InFlight \cup (IF Sent THEN {resp.req} ELSE {}) : x.kind \in Protected}

\* C6 as claimed: a token issued at time t is accepted at t and rejected at
\* every time at or after t + TTL.
C6_RejectedFromTTL ==
    \A x \in Decided, i \in issued :
        i.tok = x.token =>
            /\ x.authAt = i.at => Accepted(x)
            /\ x.authAt >= i.at + TTLTicks => Rejected(x)

\* C6 as amended: a token issued at time t is accepted at t (and until the
\* end of the second of its expiry), and is rejected at every time at or
\* after t + TTL + 1 second, in the way a tampered or malformed token is.
C6_RejectedAfterTTL ==
    /\ \A x \in Decided, i \in issued :
           i.tok = x.token =>
               /\ x.authAt = i.at => Accepted(x)
               /\ x.authAt >= i.at + TTLTicks + TicksPerSecond => Rejected(x)
    /\ \A x \in Decided :
           (x.token = Malformed \/ \E i \in issued : x.token = Tamper(i.tok))
               => Rejected(x)

C6_Witness ==
    /\ resp.status = 401 /\ resp.req.kind = "list_rooms"
    /\ \E i \in issued :
           /\ i.tok = resp.req.token
           /\ resp.req.authAt >= i.at + TTLTicks + TicksPerSecond

C8_MessageRefs ==
    \A m \in messages :
        /\ \E r \in rooms : r.id = m.room_id
        /\ \E p \in postedBy :
               /\ p.id = m.id
               /\ \E u \in users : u.username = p.sub /\ u.id = m.user_id

\* Messages of two different authors.
C8_Witness == Cardinality({m.user_id : m \in messages}) > 1

\* C9: a register or create-room request that passed its existence check is
\* answered with success or with Conflict (400), never with another error.
C9_LoserGetsConflict ==
    (Sent /\ resp.req.kind \in {"register", "create_room"}
          /\ resp.req.pc \in {"insert", "token"})
        => resp.status \in {200, 400}

\* C10: the message a successful post answers with is, field by field, the
\* stored row (which is what a later listing returns for that id).
C10_ResponseIsStoredRow ==
    (resp.status = 200 /\ resp.req.kind = "post_message") =>
        resp.body \in messages
====
